---- MODULE Spec2Model ----
(***************************************************************************)
(* Model of src/config.rs: the Speed parser (FromStr), the Speed and       *)
(* Operation formatters (Display), Config::default and Config's Display.   *)
(*                                                                         *)
(* Text is a sequence of one-character strings, so that suffix tests,      *)
(* pop/push and digit-by-digit parsing are done as the code does them.     *)
(* usize is modelled with 31 value bits (UsizeMax = 2^31 - 1),             *)
(* the widest width whose values the model checker's integers hold; every  *)
(* checked operation is written so that no intermediate exceeds UsizeMax.  *)
(***************************************************************************)
EXTENDS Integers, Sequences, FiniteSets, TLC

VARIABLES pc, s, res, speed, text, config, ctext

vars == <<pc, s, res, speed, text, config, ctext>>

-----------------------------------------------------------------------------
(* Bounds of the explored inputs *)

MaxBody == 3

MaxK == 3

MaxD == 2

MaxSecs == 1

MaxOps == 2

-----------------------------------------------------------------------------
(* Values *)

UsizeMax == 2147483647

Bps(n) == [tag |-> "Bps", n |-> n]

PassThrough == [tag |-> "PassThrough"]

Ok(v) == [tag |-> "Ok", val |-> v]

Err(m) == [tag |-> "Err", msg |-> m]

None == [tag |-> "None"]

(* The three error descriptions of core::num::ParseIntError *)
EmptyMsg == "cannot parse integer from empty string"

InvalidDigitMsg == "invalid digit found in string"

PosOverflowMsg == "number too large to fit in target type"

InvalidSpeedMsg == "Invalid speed"

OverflowMsg == "overflow"

-----------------------------------------------------------------------------
(* Characters and literals *)

DigitChars == <<"0", "1", "2", "3", "4", "5", "6", "7", "8", "9">>

IsDigit(c) == \E i \in 1..10 : DigitChars[i] = c

to_digit(c) == (CHOOSE i \in 1..10 : DigitChars[i] = c) - 1

PassThroughKeyword == <<"p", "a", "s", "s", "_", "t", "h", "r", "o", "u", "g", "h">>

BpsLit == <<"B", "p", "s">>

ends_with(str, suffix) ==
    /\ Len(str) >= Len(suffix)
    /\ SubSeq(str, Len(str) - Len(suffix) + 1, Len(str)) = suffix

-----------------------------------------------------------------------------
(* str::parse::<usize>: optional leading '+', then decimal digits folded    *)
(* left to right with checked_mul(10) and checked_add(digit).               *)

RECURSIVE ParseDigits(_, _, _)
ParseDigits(digits, i, acc) ==
    IF i > Len(digits) THEN Ok(acc)
    ELSE IF ~IsDigit(digits[i]) THEN Err(InvalidDigitMsg)
    ELSE IF acc > UsizeMax \div 10 THEN Err(PosOverflowMsg)
    ELSE IF acc * 10 > UsizeMax - to_digit(digits[i]) THEN Err(PosOverflowMsg)
    ELSE ParseDigits(digits, i + 1, acc * 10 + to_digit(digits[i]))

parse_usize_Signed(src) ==
    IF Len(src) = 0 THEN Err(EmptyMsg)
    ELSE IF Len(src) = 1 /\ src[1] \in {"+", "-"} THEN Err(InvalidDigitMsg)
    ELSE ParseDigits(IF src[1] \in {"+", "-"} THEN Tail(src) ELSE src, 1, 0)

parse_usize_EmptyIsZero(src) ==
    IF Len(src) = 0 THEN Ok(0)
    ELSE IF Len(src) = 1 /\ src[1] \in {"+", "-"} THEN Err(InvalidDigitMsg)
    ELSE ParseDigits(IF src[1] = "+" THEN Tail(src) ELSE src, 1, 0)

parse_usize(src) ==
    IF Len(src) = 0 THEN Err(EmptyMsg)
    ELSE IF Len(src) = 1 /\ src[1] \in {"+", "-"} THEN Err(InvalidDigitMsg)
    ELSE ParseDigits(IF src[1] = "+" THEN Tail(src) ELSE src, 1, 0)

wrapping_mul(a, b) ==
    IF b = 1 THEN Ok(a) ELSE Ok((a % (UsizeMax \div b + 1)) * b)

(* usize::checked_mul: None on overflow *)
checked_mul(a, b) ==
    IF b # 0 /\ a > UsizeMax \div b THEN None ELSE Ok(a * b)

-----------------------------------------------------------------------------
(* impl FromStr for Speed *)

(* 1 << e *)
Shl(e) == 2 ^ e

(* String::pop: the last character and what is left, None when empty *)
pop(n) ==
    IF Len(n) = 0 THEN None
    ELSE Ok([c |-> n[Len(n)], rest |-> SubSeq(n, 1, Len(n) - 1)])

ScaleOfDropsLast(r, rest) ==
    IF r = "K" THEN [scale |-> Shl(10), s |-> rest]
    ELSE IF r = "M" THEN [scale |-> Shl(20), s |-> rest]
    ELSE IF r = "G" THEN [scale |-> Shl(30), s |-> rest]
    ELSE [scale |-> 1, s |-> rest]

(* The match on the popped character: the scale and the string to parse;   *)
(* a character that is no scale letter is pushed back.                     *)
ScaleOf(r, rest) ==
    IF r = "K" THEN [scale |-> Shl(10), s |-> rest]
    ELSE IF r = "M" THEN [scale |-> Shl(20), s |-> rest]
    ELSE IF r = "G" THEN [scale |-> Shl(30), s |-> rest]
    ELSE [scale |-> 1, s |-> Append(rest, r)]

StartsWithKeyword(str) ==
    /\ Len(str) >= Len(PassThroughKeyword)
    /\ SubSeq(str, 1, Len(PassThroughKeyword)) = PassThroughKeyword

IsPassThrough(str) == str = PassThroughKeyword

FromStrSuffixedEmptyAfterScale(str) ==
    LET n == SubSeq(str, 1, Len(str) - 3)
        p == pop(n)
    IN  IF p.tag = "None" THEN Err(InvalidSpeedMsg)
        ELSE LET sc == ScaleOf(p.val.c, p.val.rest)
                 parsed == parse_usize(sc.s)
             IN  IF Len(sc.s) = 0 THEN Err(InvalidSpeedMsg)
                 ELSE IF parsed.tag = "Err" THEN parsed
                 ELSE LET m == checked_mul(parsed.val, sc.scale)
                      IN  IF m.tag = "None" THEN Err(OverflowMsg)
                          ELSE Ok(Bps(m.val))

(* The branch taken when s.ends_with("Bps") *)
FromStrSuffixed(str) ==
    LET n == SubSeq(str, 1, Len(str) - 3)
        p == pop(n)
    IN  IF p.tag = "None" THEN Err(InvalidSpeedMsg)
        ELSE LET sc == ScaleOf(p.val.c, p.val.rest)
                 parsed == parse_usize(sc.s)
             IN  IF parsed.tag = "Err" THEN parsed
                 ELSE LET m == checked_mul(parsed.val, sc.scale)
                      IN  IF m.tag = "None" THEN Err(OverflowMsg)
                          ELSE Ok(Bps(m.val))

(* The branch taken otherwise: the whole input is the number *)
FromStrPlain(str) ==
    LET parsed == parse_usize(str)
    IN  IF parsed.tag = "Err" THEN parsed ELSE Ok(Bps(parsed.val))

from_str(str) ==
    IF IsPassThrough(str) THEN Ok(PassThrough)
    ELSE IF ends_with(str, BpsLit) THEN FromStrSuffixed(str)
    ELSE FromStrPlain(str)

-----------------------------------------------------------------------------
(* Display of an unsigned integer: its decimal digits, no sign, no padding *)

RECURSIVE DecDigits(_)
DecDigits(n) ==
    IF n < 10 THEN <<DigitChars[n + 1]>>
    ELSE Append(DecDigits(n \div 10), DigitChars[(n % 10) + 1])

-----------------------------------------------------------------------------
(* Display of the f64 `bps as f64 / (1 << e) as f64`.                      *)
(* bps <= UsizeMax < 2^53, so the conversion to f64 is exact, and dividing *)
(* by a power of two is exact: the value printed is the dyadic rational    *)
(* bps / 2^e.  f64's Display prints the integer part and, when the value   *)
(* is no integer, a point and the shortest fraction digits that read back  *)
(* as the same f64 (core::num::flt2dec, shortest mode; never an exponent). *)
(* Fractions are sequences of FracLen decimal digits after the point.      *)

F64Mantissa == 53

FracLen == F64Mantissa

(* The number of decimal digits that hold any usize *)
IntLen == Len(DecDigits(UsizeMax))

(* n < 10^IntLen as IntLen integer digits followed by FracLen zero digits *)
FixedPoint(n) ==
    <<>> \o [i \in 1..(IntLen + FracLen) |->
                IF i <= IntLen THEN (n \div (10 ^ (IntLen - i))) % 10 ELSE 0]

(* The number written by the digits ds[lo..hi] *)
RECURSIVE Window(_, _, _)
Window(ds, lo, hi) ==
    IF lo > hi THEN 0 ELSE Window(ds, lo, hi - 1) * 10 + ds[hi]

(* ds / 2^j by long division, j in 1..MaxShift.  The remainder carried     *)
(* into a digit is the number before it modulo 2^j, which only the j       *)
(* digits before it decide, 10^j being a multiple of 2^j.                  *)
MaxShift == 8

DivPow2(ds, j) ==
    <<>> \o [i \in 1..Len(ds) |->
                LET lo == IF i - j < 1 THEN 1 ELSE i - j
                    carry == Window(ds, lo, i - 1) % (2 ^ j)
                IN  (carry * 10 + ds[i]) \div (2 ^ j)]

(* ds / 2^e *)
RECURSIVE ShiftRight(_, _)
ShiftRight(ds, e) ==
    IF e = 0 THEN ds
    ELSE IF e > MaxShift THEN ShiftRight(DivPow2(ds, MaxShift), e - MaxShift)
    ELSE DivPow2(ds, e)

FracPart(ds) == SubSeq(ds, IntLen + 1, IntLen + FracLen)

(* The exact decimal expansion of rem / 2^e, for rem < 2^e and             *)
(* e <= FracLen: the FracLen digits after the point                        *)
ExactFrac(rem, e) == FracPart(ShiftRight(FixedPoint(rem), e))

Zeros(k) == [i \in 1..k |-> 0]

RECURSIVE Log2Floor(_)
Log2Floor(q) == IF q < 2 THEN 0 ELSE 1 + Log2Floor(q \div 2)

(* Half the distance between neighbouring f64 values in [2^E, 2^(E+1)),    *)
(* E = Log2Floor(q): 2^(E - F64Mantissa), as fraction digits               *)
HalfUlp(q) == FracPart(ShiftRight(FixedPoint(1), F64Mantissa - Log2Floor(q)))

(* a < b for digit sequences of equal length *)
DigitsLess(a, b) ==
    \E i \in 1..Len(a) :
        /\ a[i] < b[i]
        /\ \A j \in 1..(i - 1) : a[j] = b[j]

IsZero(ds) == \A i \in 1..Len(ds) : ds[i] = 0

(* 1 - 0.ds as fraction digits, for ds # 0 *)
TensComplement(ds) ==
    LET last == CHOOSE j \in 1..Len(ds) :
                    ds[j] # 0 /\ \A i \in (j + 1)..Len(ds) : ds[i] = 0
    IN  [i \in 1..Len(ds) |->
            IF i < last THEN 9 - ds[i]
            ELSE IF i = last THEN 10 - ds[i]
            ELSE 0]

(* The digit sequence plus one unit in its last place (not all nines) *)
IncDigits(ds) ==
    LET last == CHOOSE j \in 1..Len(ds) :
                    ds[j] < 9 /\ \A i \in (j + 1)..Len(ds) : ds[i] = 9
    IN  [i \in 1..Len(ds) |->
            IF i < last THEN ds[i]
            ELSE IF i = last THEN ds[i] + 1
            ELSE 0]

(* The shortest fraction: the least k for which the value cut after k      *)
(* digits (down) or that plus 10^-k (up) lies within half an ulp; when     *)
(* both do, the nearer one, and up on a tie.                               *)
RECURSIVE ShortestFrac(_, _, _)
ShortestFrac(x, halfUlp, k) ==
    LET below == Zeros(k) \o SubSeq(x, k + 1, FracLen)
        kept == SubSeq(x, 1, k)
    IN  IF IsZero(below) THEN kept
        ELSE LET above == Zeros(k) \o TensComplement(SubSeq(x, k + 1, FracLen))
                 down == DigitsLess(below, halfUlp)
                 up == DigitsLess(above, halfUlp)
             IN  IF up /\ (~down \/ ~DigitsLess(below, above)) THEN IncDigits(kept)
                 ELSE IF down THEN kept
                 ELSE ShortestFrac(x, halfUlp, k + 1)

DigitText(ds) == [i \in 1..Len(ds) |-> DigitChars[ds[i] + 1]]

F64Display(bps, e) ==
    LET q == bps \div Shl(e)
        r == bps % Shl(e)
    IN  IF r = 0 THEN DecDigits(q)
        ELSE DecDigits(q) \o <<".">> \o
             DigitText(ShortestFrac(ExactFrac(r, e), HalfUlp(q), 1))

-----------------------------------------------------------------------------
(* impl fmt::Display for Speed *)

SpeedFmtInclusive(sp) ==
    IF sp.tag = "PassThrough"
        THEN <<"P", "a", "s", "s", "T", "h", "r", "o", "u", "g", "h">>
    ELSE IF sp.n <= Shl(10) THEN DecDigits(sp.n) \o BpsLit
    ELSE IF sp.n <= Shl(20) THEN F64Display(sp.n, 10) \o <<"K">> \o BpsLit
    ELSE IF sp.n <= Shl(30) THEN F64Display(sp.n, 20) \o <<"M">> \o BpsLit
    ELSE F64Display(sp.n, 30) \o <<"G">> \o BpsLit

SpeedFmtUnscaled(sp) ==
    IF sp.tag = "PassThrough"
        THEN <<"P", "a", "s", "s", "T", "h", "r", "o", "u", "g", "h">>
    ELSE DecDigits(sp.n) \o BpsLit

SpeedFmtKeyword(sp) ==
    IF sp.tag = "PassThrough" THEN PassThroughKeyword
    ELSE IF sp.n < Shl(10) THEN DecDigits(sp.n) \o BpsLit
    ELSE IF sp.n < Shl(20) THEN F64Display(sp.n, 10) \o <<"K">> \o BpsLit
    ELSE IF sp.n < Shl(30) THEN F64Display(sp.n, 20) \o <<"M">> \o BpsLit
    ELSE F64Display(sp.n, 30) \o <<"G">> \o BpsLit

SpeedFmt(sp) ==
    IF sp.tag = "PassThrough"
        THEN <<"P", "a", "s", "s", "T", "h", "r", "o", "u", "g", "h">>
    ELSE IF sp.n < Shl(10) THEN DecDigits(sp.n) \o BpsLit
    ELSE IF sp.n < Shl(20) THEN F64Display(sp.n, 10) \o <<"K">> \o BpsLit
    ELSE IF sp.n < Shl(30) THEN F64Display(sp.n, 20) \o <<"M">> \o BpsLit
    ELSE F64Display(sp.n, 30) \o <<"G">> \o BpsLit

-----------------------------------------------------------------------------
(* impl fmt::Display for Operation *)

Operations == {"Read", "Write"}

OperationFmt(op) ==
    IF op = "Read" THEN <<"R", "e", "a", "d">>
    ELSE <<"W", "r", "i", "t", "e">>

-----------------------------------------------------------------------------
(* Config, Default for Config, Display for Config *)

(* std::time::Duration: whole seconds and the nanoseconds below a second *)
Duration(secs, nanos) == [secs |-> secs, nanos |-> nanos]

from_secs(secs) == Duration(secs, 0)

as_secs(d) == d.secs

ConfigDefault ==
    [duration |-> from_secs(10 * 60),
     frequency |-> from_secs(30 * 60),
     operations |-> <<"Read", "Write">>,
     speed |-> PassThrough]

(* The fold of Config's fmt: one formatted string per operation, in order *)
RECURSIVE FoldOps(_, _)
FoldOps(acc, ops) ==
    IF Len(ops) = 0 THEN acc
    ELSE FoldOps(Append(acc, OperationFmt(Head(ops))), Tail(ops))

RECURSIVE joinTrailing(_, _)
joinTrailing(strs, sep) ==
    IF Len(strs) = 0 THEN <<>>
    ELSE strs[1] \o sep \o joinTrailing(Tail(strs), sep)

(* [String]::join(sep): the separator between consecutive elements only *)
RECURSIVE join(_, _)
join(strs, sep) ==
    IF Len(strs) = 0 THEN <<>>
    ELSE IF Len(strs) = 1 THEN strs[1]
    ELSE strs[1] \o sep \o join(Tail(strs), sep)

ConfigFmt(c) ==
    LET d == as_secs(c.duration)
        f == as_secs(c.frequency)
        ops == join(FoldOps(<<>>, c.operations), <<":">>)
    IN  <<"C", "o", "n", "f", "i", "g", " ", "{", "D", "u", "r", "a", "t",
          "i", "o", "n", ":", " ">> \o DecDigits(d) \o
        <<"s", "e", "c", ",", " ", "F", "r", "e", "q", "u", "e", "n", "c",
          "y", ":", " ">> \o DecDigits(f) \o
        <<"s", "e", "c", ",", " ", "O", "p", "e", "r", "a", "t", "i", "o",
          "n", "s", ":", " ">> \o ops \o
        <<",", " ", "S", "p", "e", "e", "d", ":", " ">> \o SpeedFmt(c.speed) \o <<"}">>

-----------------------------------------------------------------------------
(* The inputs explored *)

BodyChars == {"0", "1", "2", "9", "+", "-", "K", "x", ".", " "}

Bodies == UNION {[1..k -> BodyChars] : k \in 0..MaxBody}

Tails ==
    {<<>>, BpsLit, <<"K">> \o BpsLit, <<"M">> \o BpsLit, <<"G">> \o BpsLit,
     <<"b", "p", "s">>, <<"k">> \o BpsLit, BpsLit \o <<" ">>}

Keywords ==
    {<<"p", "a", "s", "s", "_", "t", "h", "r", "o", "u", "g", "h">>,
     <<"P", "a", "s", "s", "T", "h", "r", "o", "u", "g", "h">>,
     <<"P", "a", "s", "s", "_", "t", "h", "r", "o", "u", "g", "h">>,
     <<"P", "A", "S", "S", "_", "T", "H", "R", "O", "U", "G", "H">>,
     <<"p", "a", "s", "s", "-", "t", "h", "r", "o", "u", "g", "h">>,
     <<"p", "a", "s", "s", "_", "t", "h", "r", "o", "u", "g">>,
     <<"p", "a", "s", "s", "_", "t", "h", "r", "o", "u", "g", "h", "h">>,
     <<" ", "p", "a", "s", "s", "_", "t", "h", "r", "o", "u", "g", "h">>,
     <<"p", "a", "s", "s", "_", "t", "h", "r", "o", "u", "g", "h", " ">>,
     <<"p", "a", "s", "s", "_", "t", "h", "r", "o", "u", "g", "h", "B", "p", "s">>,
     <<"p", "a", "s", "s", "_", "t", "h", "r", "o", "u", "g", "h", "K", "B", "p", "s">>,
     <<"p", "a", "s", "s", "t", "h", "r", "o", "u", "g", "h">>}

LongBodies ==
    {<<"2">>,
     <<" ", "1">>,
     <<"1", " ">>,
     <<"1", ".", "5">>,
     <<"1", "0", "2", "4">>,
     <<"1", "5", "0", "0">>,
     <<"2", "0", "4", "7">>,
     <<"2", "0", "4", "8">>,
     <<"0", "2", "0", "4", "7">>,
     <<"2", "0", "9", "7", "1", "5", "1">>,
     <<"2", "0", "9", "7", "1", "5", "2">>,
     <<"2", "1", "4", "7", "4", "8", "3", "6", "4", "7">>,
     <<"2", "1", "4", "7", "4", "8", "3", "6", "4", "8">>,
     <<"2", "1", "4", "7", "4", "8", "3", "6", "5", "0">>,
     <<"0", "0", "0", "2", "1", "4", "7", "4", "8", "3", "6", "4", "7">>,
     <<"4", "2", "9", "4", "9", "6", "7", "2", "9", "6">>,
     <<"9", "9", "9", "9", "9", "9", "9", "9", "9", "9">>,
     <<"9", "9", "9", "9", "9", "9", "9", "9", "9", "9", "9", "9", "9", "9", "9", "9", "9", "9", "9", "9">>,
     <<"+", "1", "0", "2", "4">>,
     <<"-", "1", "0", "2", "4">>,
     <<"1", "0", ".", "5">>,
     <<"1", ".", "4", "6", "4", "8", "4", "3", "7", "5">>,
     <<"1", "0", "2", "4", "x">>,
     <<"x", "1", "0", "2", "4">>,
     <<"9", "9", "9", "9", "9", "9", "9", "9", "9", "9", "9", "x">>}

Inputs ==
    {b \o t : b \in Bodies \cup LongBodies, t \in Tails} \cup Keywords

Scales == {1, Shl(10), Shl(20), Shl(30)}

SpeedSamples ==
    UNION {IF k <= UsizeMax \div sc
              THEN {k * sc + d : d \in (-MaxD)..MaxD} \cap 0..UsizeMax
              ELSE {} : k \in 0..MaxK, sc \in Scales}
    \cup {UsizeMax - d : d \in 0..MaxD}
    \cup {1023, 1500, 1536, 10240, 1572864, 1610612736, 579235776, 97056992}

Speeds == {Bps(n) : n \in SpeedSamples} \cup {PassThrough}

Durations ==
    {Duration(secs, nanos) : secs \in 0..MaxSecs \cup {600, 1800},
                             nanos \in {0, 999999999}}

OpSeqs == UNION {[1..k -> Operations] : k \in 0..MaxOps}

ConfigSpeeds == {PassThrough, Bps(0), Bps(1024), Bps(1500)}

Configs ==
    [duration : Durations, frequency : Durations,
     operations : OpSeqs, speed : ConfigSpeeds]

-----------------------------------------------------------------------------
(* The state machine: a caller that, from idle, calls one operation, may   *)
(* feed the result to the next one, and returns to idle.  s/res hold the   *)
(* from_str call, speed/text the Speed Display, config/ctext the Config    *)
(* built and its Display.                                                  *)

Init ==
    /\ pc = "idle"
    /\ s = <<>>
    /\ res = None
    /\ speed = None
    /\ text = <<>>
    /\ config = None
    /\ ctext = <<>>

(* Speed::from_str on an input of the caller *)
FromStrCall ==
    /\ pc = "idle"
    /\ \E i \in Inputs :
           /\ pc' = "parsed"
           /\ s' = i
           /\ res' = from_str(i)
           /\ speed' = None
           /\ text' = <<>>
           /\ config' = None
           /\ ctext' = <<>>

(* format!("{}", speed) *)
SpeedFmtCall ==
    /\ pc = "idle"
    /\ \E x \in Speeds :
           /\ pc' = "formatted"
           /\ speed' = x
           /\ text' = SpeedFmt(x)
           /\ s' = <<>>
           /\ res' = None
           /\ config' = None
           /\ ctext' = <<>>

(* Speed::from_str on the text the last Display produced *)
Reparse ==
    /\ pc = "formatted"
    /\ pc' = "reparsed"
    /\ s' = text
    /\ res' = from_str(text)
    /\ UNCHANGED <<speed, text, config, ctext>>

(* Config::default() *)
DefaultCall ==
    /\ pc = "idle"
    /\ pc' = "default"
    /\ config' = ConfigDefault
    /\ s' = <<>>
    /\ res' = None
    /\ speed' = None
    /\ text' = <<>>
    /\ ctext' = <<>>

(* A Config assembled by the caller from its fields *)
BuildConfig ==
    /\ pc = "idle"
    /\ \E c \in Configs :
           /\ pc' = "built"
           /\ config' = c
           /\ s' = <<>>
           /\ res' = None
           /\ speed' = None
           /\ text' = <<>>
           /\ ctext' = <<>>

(* format!("{}", config) *)
ConfigFmtCall ==
    /\ pc \in {"built", "default"}
    /\ pc' = "displayed"
    /\ ctext' = ConfigFmt(config)
    /\ UNCHANGED <<s, res, speed, text, config>>

(* The caller drops what it holds *)
Return ==
    /\ pc # "idle"
    /\ pc' = "idle"
    /\ s' = <<>>
    /\ res' = None
    /\ speed' = None
    /\ text' = <<>>
    /\ config' = None
    /\ ctext' = <<>>

Next ==
    \/ FromStrCall
    \/ SpeedFmtCall
    \/ Reparse
    \/ DefaultCall
    \/ BuildConfig
    \/ ConfigFmtCall
    \/ Return

Spec == Init /\ [][Next]_vars

-----------------------------------------------------------------------------
(* Vocabulary of the properties, written without the operators above *)

Parsed == pc \in {"parsed", "reparsed"}

DigitSet == {"0", "1", "2", "3", "4", "5", "6", "7", "8", "9"}

DigitValue ==
    ("0" :> 0) @@ ("1" :> 1) @@ ("2" :> 2) @@ ("3" :> 3) @@ ("4" :> 4) @@
    ("5" :> 5) @@ ("6" :> 6) @@ ("7" :> 7) @@ ("8" :> 8) @@ ("9" :> 9)

AllDigits(d) == \A i \in 1..Len(d) : d[i] \in DigitSet

HasDigit(d) == \E i \in 1..Len(d) : d[i] \in DigitSet

(* The number a digit string writes, or TooBig when it exceeds UsizeMax *)
TooBig == 0 - 1

RECURSIVE ValueOf(_)
ValueOf(d) ==
    IF Len(d) = 0 THEN 0
    ELSE LET front == ValueOf(SubSeq(d, 1, Len(d) - 1))
             last == DigitValue[d[Len(d)]]
         IN  IF front = TooBig \/ front > (UsizeMax - last) \div 10 THEN TooBig
             ELSE front * 10 + last

(* v * scale fits in usize *)
Fits(v, scale) == v # TooBig /\ v <= UsizeMax \div scale

SuffixScales ==
    {[suf |-> <<>>, scale |-> 1],
     [suf |-> <<"B", "p", "s">>, scale |-> 1],
     [suf |-> <<"K", "B", "p", "s">>, scale |-> 1024],
     [suf |-> <<"M", "B", "p", "s">>, scale |-> 1024 * 1024],
     [suf |-> <<"G", "B", "p", "s">>, scale |-> 1024 * 1024 * 1024]}

LetterScales == {p \in SuffixScales : Len(p.suf) = 4}

(* str = d \o suf for a non-empty digit string d *)
IsDigitsThen(str, suf) ==
    /\ Len(str) > Len(suf)
    /\ SubSeq(str, Len(str) - Len(suf) + 1, Len(str)) = suf
    /\ AllDigits(SubSeq(str, 1, Len(str) - Len(suf)))

DigitsBefore(str, suf) == SubSeq(str, 1, Len(str) - Len(suf))

KeywordText == <<"p", "a", "s", "s", "_", "t", "h", "r", "o", "u", "g", "h">>

-----------------------------------------------------------------------------
(* C1: for every non-empty digit string d and every suffix among "",       *)
(* "Bps", "KBps", "MBps", "GBps", from_str(d + suffix) is                   *)
(* Ok(Bps(value(d) * scale)) with scale 1, 1, 2^10, 2^20, 2^30 whenever the *)
(* product fits in usize; and from_str(d) = from_str(d + "Bps").           *)
C1_ScaledDigits ==
    Parsed =>
        /\ \A p \in SuffixScales :
              (IsDigitsThen(s, p.suf)
                  /\ Fits(ValueOf(DigitsBefore(s, p.suf)), p.scale))
              => res = Ok(Bps(ValueOf(DigitsBefore(s, p.suf)) * p.scale))
        /\ (Len(s) > 0 /\ AllDigits(s)) => from_str(s \o <<"B", "p", "s">>) = res

C1_Witness ==
    /\ pc = "parsed"
    /\ s = <<"1", "0", "2", "4", "K", "B", "p", "s">>
    /\ res = Ok(Bps(1048576))

(* C2: when value(d) * scale exceeds UsizeMax for a scale letter K/M/G,    *)
(* from_str fails; every Ok(Bps(v)) it returns holds the exact product    *)
(* and v <= UsizeMax.                                                      *)
C2_NoWrappedValue ==
    Parsed =>
        /\ \A p \in LetterScales :
              IsDigitsThen(s, p.suf) =>
                  LET v == ValueOf(DigitsBefore(s, p.suf))
                  IN  /\ ~Fits(v, p.scale) => res.tag = "Err"
                      /\ res.tag = "Ok" =>
                            /\ Fits(v, p.scale)
                            /\ res.val = Bps(v * p.scale)
        /\ (res.tag = "Ok" /\ res.val.tag = "Bps") => res.val.n \in 0..UsizeMax

C2_Witness ==
    /\ pc = "parsed"
    /\ s = <<"2", "G", "B", "p", "s">>
    /\ res = Err("overflow")

(* C3: from_str returns Ok(PassThrough) if and only if the input is        *)
(* exactly "pass_through".                                                 *)
C3_PassThroughOnlyKeyword ==
    Parsed => (res = Ok(PassThrough) <=> s = KeywordText)

C3_Witness ==
    /\ pc = "parsed"
    /\ s = KeywordText
    /\ res = Ok(PassThrough)

(* C4: from_str returns an error for every input other than                *)
(* "pass_through" that contains no decimal digit.                          *)
C4_NoDigitIsError ==
    (Parsed /\ s # KeywordText /\ ~HasDigit(s)) => res.tag = "Err"

C4_Witness ==
    /\ pc = "parsed"
    /\ s = <<"B", "p", "s">>
    /\ res.tag = "Err"

(* The numeric remainder of an input: the whole input when it does not    *)
(* end in "Bps", otherwise what is left after stripping "Bps" and one      *)
(* trailing K, M or G.                                                     *)
EndsInBps(str) ==
    Len(str) >= 3 /\ SubSeq(str, Len(str) - 2, Len(str)) = <<"B", "p", "s">>

Remainder(str) ==
    IF ~EndsInBps(str) THEN str
    ELSE LET body == SubSeq(str, 1, Len(str) - 3)
         IN  IF Len(body) > 0 /\ body[Len(body)] \in {"K", "M", "G"}
                 THEN SubSeq(body, 1, Len(body) - 1)
                 ELSE body

(* The scale the suffix of an input selects *)
ScaleIn(str) ==
    IF ~EndsInBps(str) \/ Len(str) = 3 THEN 1
    ELSE LET c == str[Len(str) - 3]
         IN  IF c = "K" THEN 1024
             ELSE IF c = "M" THEN 1024 * 1024
             ELSE IF c = "G" THEN 1024 * 1024 * 1024
             ELSE 1

(* The remainder without one leading '+' that something follows *)
Unsigned(rem) ==
    IF Len(rem) > 1 /\ rem[1] = "+" THEN SubSeq(rem, 2, Len(rem)) ELSE rem

(* C5 as stated: from_str returns an error whenever the numeric remainder  *)
(* contains a character that is not a decimal digit, a leading sign        *)
(* included.                                                               *)
C5_AnyNonDigitIsError ==
    (Parsed /\ s # KeywordText /\ ~AllDigits(Remainder(s))) => res.tag = "Err"

(* C5 amended: from_str returns                                            *)
(* an error whenever the numeric remainder, taken without one leading '+'  *)
(* that is followed by at least one character, contains a character that   *)
(* is not a decimal digit; a single leading '+' before digits is accepted  *)
(* and the digits are parsed as without it.                                *)
C5_NonDigitIsErrorButPlus ==
    (Parsed /\ s # KeywordText) =>
        /\ ~AllDigits(Unsigned(Remainder(s))) => res.tag = "Err"
        /\ (AllDigits(Unsigned(Remainder(s)))
               /\ Fits(ValueOf(Unsigned(Remainder(s))), ScaleIn(s))
               /\ Len(Remainder(s)) > 0)
           => res = Ok(Bps(ValueOf(Unsigned(Remainder(s))) * ScaleIn(s)))

C5_Witness ==
    /\ pc = "parsed"
    /\ s = <<"-", "1", "K", "B", "p", "s">>
    /\ res = Err("invalid digit found in string")

ParseIntMsgs ==
    {"cannot parse integer from empty string",
     "invalid digit found in string",
     "number too large to fit in target type"}

(* C6 as stated: every failure is of one of three kinds; an input ending   *)
(* in "Bps" whose numeric remainder is empty fails with "Invalid speed", a *)
(* non-empty non-numeric remainder with the numeric-parse kind, a product  *)
(* that does not fit with "overflow".                                      *)
C6_KindByRemainder ==
    (Parsed /\ res.tag = "Err") =>
        /\ res.msg \in ParseIntMsgs \cup {"Invalid speed", "overflow"}
        /\ (EndsInBps(s) /\ Len(Remainder(s)) = 0) => res.msg = "Invalid speed"
        /\ (Len(Remainder(s)) > 0 /\ ~AllDigits(Remainder(s)))
               => res.msg \in ParseIntMsgs
        /\ (Len(Remainder(s)) > 0 /\ AllDigits(Remainder(s))
               /\ ~Fits(ValueOf(Remainder(s)), ScaleIn(s)))
               => res.msg = "overflow"

(* C6 amended: every failure is of one of three kinds and the input        *)
(* decides the kind: "Invalid speed" exactly for the input "Bps"; "overflow"*)
(* exactly when the input ends in "Bps", its remainder (one leading '+'    *)
(* apart) is a non-empty digit string whose value fits in usize, and the   *)
(* value times the scale does not; the numeric-parse kind in every other   *)
(* case, among them the empty remainders of "", "KBps", "MBps" and "GBps"  *)
(* and digit strings too large for usize.                                  *)
C6_KindByInput ==
    (Parsed /\ res.tag = "Err") =>
        LET rem == Remainder(s)
            v == ValueOf(Unsigned(rem))
            numeric == Len(rem) > 0 /\ AllDigits(Unsigned(rem)) /\ v # TooBig
        IN  /\ res.msg \in ParseIntMsgs \cup {"Invalid speed", "overflow"}
            /\ res.msg = "Invalid speed" <=> s = <<"B", "p", "s">>
            /\ res.msg = "overflow" <=>
                  (EndsInBps(s) /\ numeric /\ ~Fits(v, ScaleIn(s)))
            /\ (Len(rem) = 0 /\ s # <<"B", "p", "s">>)
                  => res.msg = "cannot parse integer from empty string"
            /\ (Len(rem) > 0 /\ AllDigits(rem) /\ v = TooBig)
                  => res.msg = "number too large to fit in target type"

C6_Witness ==
    /\ pc = "parsed"
    /\ s = <<"K", "B", "p", "s">>
    /\ res = Err("cannot parse integer from empty string")

(* The divisor Display selects for a byte count n >= 2^10 *)
DivisorOf(n) ==
    IF n < 1024 * 1024 THEN 1024
    ELSE IF n < 1024 * 1024 * 1024 THEN 1024 * 1024
    ELSE 1024 * 1024 * 1024

UnitOf(n) ==
    IF n < 1024 THEN <<"B", "p", "s">>
    ELSE IF n < 1024 * 1024 THEN <<"K", "B", "p", "s">>
    ELSE IF n < 1024 * 1024 * 1024 THEN <<"M", "B", "p", "s">>
    ELSE <<"G", "B", "p", "s">>

(* ds is the decimal text of n: digits of value n, no leading zero *)
IsDecimalOf(ds, n) ==
    /\ Len(ds) > 0
    /\ AllDigits(ds)
    /\ ValueOf(ds) = n
    /\ (Len(ds) > 1 => ds[1] # "0")

HasPoint(str) == \E i \in 1..Len(str) : str[i] = "."

(* The part of a number text before the point, the whole when none *)
IntegerPart(num) ==
    IF HasPoint(num)
        THEN SubSeq(num, 1, (CHOOSE i \in 1..Len(num) : num[i] = ".") - 1)
        ELSE num

FractionPart(num) ==
    SubSeq(num, (CHOOSE i \in 1..Len(num) : num[i] = ".") + 1, Len(num))

(* C7: Display of Speed is total and a first-match threshold ladder:       *)
(* PassThrough gives "PassThrough"; Bps(n) gives the number n / divisor    *)
(* followed by the unit, with divisor and unit 1 "Bps" below 2^10, 2^10    *)
(* "KBps" below 2^20, 2^20 "MBps" below 2^30, 2^30 "GBps" from 2^30 on;    *)
(* an exact multiple of the divisor is printed as the integer quotient     *)
(* with no decimal point, any other value with a point and a fraction.     *)
C7_DisplayLadder ==
    pc = "formatted" =>
        /\ Len(text) > 0
        /\ speed.tag = "PassThrough" => text = <<"P", "a", "s", "s", "T", "h", "r", "o", "u", "g", "h">>
        /\ speed.tag = "Bps" =>
              LET n == speed.n
                  unit == UnitOf(n)
                  num == SubSeq(text, 1, Len(text) - Len(unit))
              IN  /\ Len(text) > Len(unit)
                  /\ SubSeq(text, Len(text) - Len(unit) + 1, Len(text)) = unit
                  /\ n < 1024 => IsDecimalOf(num, n)
                  /\ n >= 1024 =>
                        /\ IsDecimalOf(IntegerPart(num), n \div DivisorOf(n))
                        /\ HasPoint(num) <=> n % DivisorOf(n) # 0
                        /\ HasPoint(num) =>
                              /\ Len(FractionPart(num)) > 0
                              /\ AllDigits(FractionPart(num))
        /\ speed = Bps(0) => text = <<"0", "B", "p", "s">>
        /\ speed = Bps(1023) => text = <<"1", "0", "2", "3", "B", "p", "s">>
        /\ speed = Bps(1024) => text = <<"1", "K", "B", "p", "s">>

C7_Witness ==
    /\ pc = "formatted"
    /\ speed = Bps(1024)
    /\ text = <<"1", "K", "B", "p", "s">>

(* C8: round trip through the text form is not guaranteed: for Bps(1500)   *)
(* and every Bps(n) with n >= 1024 that is no exact multiple of the        *)
(* divisor its Display selects, from_str(format(x)) is not Ok(x).          *)
C8_RoundTripLost ==
    (pc = "reparsed" /\ speed.tag = "Bps" /\ speed.n >= 1024
        /\ speed.n % DivisorOf(speed.n) # 0)
    => /\ res # Ok(speed)
       /\ speed = Bps(1500) => res.tag = "Err"

C8_Witness ==
    /\ pc = "reparsed"
    /\ speed = Bps(1500)
    /\ text = <<"1", ".", "4", "6", "4", "8", "4", "3", "7", "5", "K", "B", "p", "s">>
    /\ res.tag = "Err"

(* The operations' texts joined by ":" *)
RECURSIVE OpsText(_)
OpsText(ops) ==
    IF Len(ops) = 0 THEN <<>>
    ELSE LET name == IF ops[Len(ops)] = "Read" THEN <<"R", "e", "a", "d">>
                     ELSE <<"W", "r", "i", "t", "e">>
         IN  IF Len(ops) = 1 THEN name
             ELSE OpsText(SubSeq(ops, 1, Len(ops) - 1)) \o <<":">> \o name

(* The decimal text of n < 10^4 *)
Decimal(n) ==
    LET len == IF n < 10 THEN 1 ELSE IF n < 100 THEN 2 ELSE IF n < 1000 THEN 3 ELSE 4
    IN  [i \in 1..len |->
            CHOOSE c \in DigitSet : DigitValue[c] = (n \div (10 ^ (len - i))) % 10]

DefaultText ==
    <<"C", "o", "n", "f", "i", "g", " ", "{", "D", "u", "r", "a", "t", "i",
      "o", "n", ":", " ", "6", "0", "0", "s", "e", "c", ",", " ", "F", "r",
      "e", "q", "u", "e", "n", "c", "y", ":", " ", "1", "8", "0", "0", "s",
      "e", "c", ",", " ", "O", "p", "e", "r", "a", "t", "i", "o", "n", "s",
      ":", " ", "R", "e", "a", "d", ":", "W", "r", "i", "t", "e", ",", " ",
      "S", "p", "e", "e", "d", ":", " ", "P", "a", "s", "s", "T", "h", "r",
      "o", "u", "g", "h", "}">>

(* C9: Display of a Config is "Config {Duration: <d>sec, Frequency:        *)
(* <f>sec, Operations: <ops>, Speed: <speed>}" with d and f the whole      *)
(* seconds, <ops> the operations' texts in order joined by ":" with        *)
(* duplicates kept, <speed> the Speed's Display text; Config::default()    *)
(* is 600 s, 1800 s, [Read, Write], PassThrough and displays as            *)
(* "Config {Duration: 600sec, Frequency: 1800sec, Operations: Read:Write,  *)
(* Speed: PassThrough}".                                                   *)
C9_ConfigDisplay ==
    /\ pc = "displayed" =>
          ctext = <<"C", "o", "n", "f", "i", "g", " ", "{", "D", "u", "r",
                    "a", "t", "i", "o", "n", ":", " ">> \o
                  Decimal(config.duration.secs) \o
                  <<"s", "e", "c", ",", " ", "F", "r", "e", "q", "u", "e",
                    "n", "c", "y", ":", " ">> \o
                  Decimal(config.frequency.secs) \o
                  <<"s", "e", "c", ",", " ", "O", "p", "e", "r", "a", "t",
                    "i", "o", "n", "s", ":", " ">> \o
                  OpsText(config.operations) \o
                  <<",", " ", "S", "p", "e", "e", "d", ":", " ">> \o
                  SpeedFmt(config.speed) \o <<"}">>
    /\ (pc = "displayed"
           /\ config = [duration |-> [secs |-> 600, nanos |-> 0],
                        frequency |-> [secs |-> 1800, nanos |-> 0],
                        operations |-> <<"Read", "Write">>,
                        speed |-> [tag |-> "PassThrough"]])
       => ctext = DefaultText
    /\ pc = "default" =>
          config = [duration |-> [secs |-> 600, nanos |-> 0],
                    frequency |-> [secs |-> 1800, nanos |-> 0],
                    operations |-> <<"Read", "Write">>,
                    speed |-> [tag |-> "PassThrough"]]

C9_Witness ==
    /\ pc = "displayed"
    /\ config = ConfigDefault
    /\ ctext = DefaultText

(* C10: from_str(format(x)) = Ok(x) if and only if x is Bps(n) with        *)
(* n < 2^10 or n an exact multiple of the divisor its Display selects; it  *)
(* does not hold for PassThrough, whose text "PassThrough" the parser      *)
(* rejects.                                                                *)
C10_RoundTripExactly ==
    pc = "reparsed" =>
        /\ res = Ok(speed) <=>
              /\ speed.tag = "Bps"
              /\ speed.n < 1024 \/ speed.n % DivisorOf(speed.n) = 0
        /\ speed.tag = "PassThrough" => res.tag = "Err"

C10_Witness ==
    /\ pc = "reparsed"
    /\ speed = PassThrough
    /\ s = <<"P", "a", "s", "s", "T", "h", "r", "o", "u", "g", "h">>
    /\ res.tag = "Err"

====
